---- MODULE Spec2Model ----
\* Glyph rasterizer back ends of wr_glyph_rasterizer:
\*   backend/fontdue/font.rs  - process-wide FontCache behind a try-locked Mutex,
\*                              one FontContext per worker thread;
\*   backend/swash/font.rs    - thread-owned fonts and a glyph-image cache.
EXTENDS Integers, Naturals, Sequences, FiniteSets, TLC

\* ------------------------------------------------------------------ bounds
NumCtx == 2    \* worker threads, one FontContext each
NumKeys == 1   \* font identities (FontKey values)
MaxCalls == 4  \* calls issued in one run, over all threads

Threads == 1..NumCtx
Keys == 1..NumKeys

\* ------------------------------------------------------- font file contents
\* A font file is a list of faces (a collection has more than one); the
\* garbage file "X" has none, so no collection index parses.
Files == {"A", "B", "S", "X"}

NumFaces(f) == CASE f = "A" -> 1 [] f = "B" -> 2 [] f = "S" -> 1 [] OTHER -> 0

\* RawTemplate = (Arc<Vec<u8>>, u32): the bytes and the collection index.
RawTemplates == {<<"A", 0>>, <<"B", 0>>, <<"B", 1>>, <<"X", 0>>}

\* The templates the worker threads hand to the shared store: a face of a
\* collection that parses and a file that does not.
StoreTemplates == {<<"B", 1>>, <<"X", 0>>}

\* FontTemplate::Raw(bytes, index) | FontTemplate::Native(handle)
FontTemplates ==
    {[kind |-> "Raw", data |-> d] : d \in RawTemplates}
        \cup {[kind |-> "Native", data |-> <<"A", 0>>]}

\* fontdue::Font::from_bytes(bytes, settings) is Ok iff the face exists.
from_bytes_ok(data) == data[2] < NumFaces(data[1])

\* ttf_parser::Face::parse reads the same table directory as fontdue.
face_parse_ok(data) == data[2] < NumFaces(data[1])

\* One glyph of a face: the extent of its outline at a non-zero size (0 x 0
\* for a glyph without outline), its bearings, and the embedded images the
\* face carries for it ("none", "ok": decodes, "bad": present, undecodable).
Glyph(w, h, x, y, svg, png) ==
    [w |-> w, h |-> h, xmin |-> x, ymin |-> y, svg |-> svg, png |-> png]

\* Every face has four glyphs, glyph 0 being .notdef.

Face(data) ==
    CASE data = <<"A", 0>> ->
           <<Glyph(1, 1, 0, 0, "none", "none"),    \* .notdef box
             Glyph(1, 2, 1, -1, "none", "none"),   \* outline
             Glyph(0, 0, 0, 0, "none", "none"),    \* space
             Glyph(0, 0, 0, 0, "none", "ok")>>     \* bitmap emoji
      [] data = <<"B", 0>> ->
           <<Glyph(0, 0, 0, 0, "none", "none"),    \* empty .notdef
             Glyph(2, 1, 0, 0, "none", "none"),
             Glyph(0, 0, 0, 0, "ok", "none"),      \* SVG glyph
             Glyph(0, 0, 0, 0, "bad", "ok")>>      \* broken SVG, PNG strike
      [] data = <<"S", 0>> ->
           <<Glyph(1, 1, 0, 0, "none", "none"),
             Glyph(2, 2, 0, 0, "none", "none"),
             Glyph(0, 0, 0, 0, "none", "none"),
             Glyph(1, 1, 0, 0, "none", "none")>>
      [] OTHER ->
           <<Glyph(1, 1, 0, 0, "none", "none"),
             Glyph(1, 1, 0, 1, "none", "none"),
             Glyph(0, 0, 0, 0, "none", "bad"),
             Glyph(2, 1, 0, 0, "none", "none")>>

FontCode(data) ==
    CASE data = <<"A", 0>> -> 1 [] data = <<"B", 0>> -> 2
      [] data = <<"S", 0>> -> 4 [] OTHER -> 3

\* Font::lookup_glyph_index / charmap().map: 0 for an unmapped character.
Chars == {"a", "b", "z"}
lookup_glyph_index(data, ch) ==
    CASE ch = "a" -> 1
      [] ch = "b" -> IF data = <<"A", 0>> THEN 3 ELSE 2
      [] OTHER -> 0

\* Coverage the rasterizer computes for pixel p (from 0) of a glyph, channel
\* c of the subpixel triple (0 for the single-channel mask).
Coverage(data, glyph, p, c) ==
    (FontCode(data) * 89 + glyph * 53 + p * 29 + c * 67 + 17) % 256

\* ------------------------------------------------- instances and glyph keys
\* FontInstance: font_key, instance_key, size (px), render_mode, flags, color.
ColorU(r, g, b, a) == <<r, g, b, a>>

Instances ==
    {f \in [font_key : Keys, instance_key : {1}, size : {0, 16},
            render_mode : {"Mono", "Alpha", "Subpixel"},
            flags : {{}, {"SUBPIXEL_BGR"}, {"EMBEDDED_BITMAPS"}},
            color : {ColorU(255, 255, 255, 255), ColorU(200, 10, 30, 255)}] :
        f.size = 0 => f.color = ColorU(255, 255, 255, 255)}

\* GlyphKey: the 32-bit glyph index and the quantized sub-pixel offset
\* (in quarters of a pixel).
GlyphKeys ==
    {k \in [index : {0, 1, 2, 3, 65537}, subpx : {0, 2}] :
        k.subpx # 0 => k.index = 1}

NoInstance ==
    [font_key |-> 0, instance_key |-> 0, size |-> 0, render_mode |-> "Alpha",
     flags |-> {}, color |-> ColorU(0, 0, 0, 0)]
NoGlyphKey == [index |-> 0, subpx |-> 0]
NoFont == <<"X", 0>>
\* out.res is what the last query returned (for delete_font_instance, which
\* returns nothing, the instance it was called with); out.ras is what the last
\* rasterize_glyph returned since a font was last added or deleted, and
\* out.again tells that it was not the first one since then.
NoOut == [op |-> "none", res |-> [tag |-> "none"], ras |-> [tag |-> "none"],
          again |-> FALSE]
forget(o) == [o EXCEPT !.ras = [tag |-> "none"], !.again = FALSE]

\* The results a call can end in.
LoadFailed == [tag |-> "Err"]
None == [tag |-> "None"]
Panic == [tag |-> "Panic"]

\* ------------------------------------------------------------------ state
VARIABLES
    lock,         \* FONT_CACHE mutex: 0 when free, else the thread holding it
    cache_fonts,  \* FontCache.fonts : FontHash -> Arc<CachedFont> (0: absent)
    ctx_fonts,    \* FontContext.fonts of each thread
    heap,         \* the CachedFont each live Arc points to: [hash, data]
    pc,           \* position of each thread inside its current call
    arg,          \* (font_key, font_template) of the call in progress
    cached,       \* the Arc<CachedFont> local of the call in progress
    calls,        \* number of calls issued so far
    backend,      \* the back end compiled in: "fontdue" or "swash"
    fonts,        \* swash FontContext.fonts : FontKey -> Font
    cache,        \* swash FontContext.cache : (FontInstance, GlyphKey) -> GlyphImage
    font,         \* the FontInstance handed to the queries of this run
    key,          \* the GlyphKey handed to the queries of this run
    out           \* the last query and what it returned

vars == <<lock, cache_fonts, ctx_fonts, heap, pc, arg, cached, calls,
          backend, fonts, cache, font, key, out>>

\* What the shared-store operations leave alone.
swash_vars == <<backend, fonts, cache, font, key>>

NoObj == 0
MaxObjs == NumKeys * (NumCtx + 1) + NumCtx
ObjIds == 1..MaxObjs
NoArg == [key |-> 0, template |-> [kind |-> "None", data |-> <<"X", 0>>]]
Dead == [hash |-> 0, data |-> <<"X", 0>>]

\* Arc::strong_count: the number of live Arc handles to the object.
strong_count(o, cf, xf, ch) ==
    Cardinality({k \in Keys : cf[k] = o})
      + Cardinality({tk \in Threads \X Keys : xf[tk[1]][tk[2]] = o})
      + Cardinality({t \in Threads : ch[t] = o})

\* Arc::new: a fresh allocation is an address no live Arc points to.
Arc_new == CHOOSE o \in ObjIds :
    /\ strong_count(o, cache_fonts, ctx_fonts, cached) = 0
    /\ \A p \in ObjIds :
         strong_count(p, cache_fonts, ctx_fonts, cached) = 0 => o <= p

\* Drop under which the store owns the CachedFont: it is deallocated as
\* soon as the store's table no longer points to it.
Dealloc_store_owned(h, cf, xf, ch) ==
    [o \in ObjIds |->
        IF (\A k \in Keys : cf[k] # o) /\ (\A t \in Threads : ch[t] # o)
          THEN Dead ELSE h[o]]

\* Drop of Arc: the CachedFont is deallocated with its last handle.
Dealloc(h, cf, xf, ch) ==
    [o \in ObjIds |-> IF strong_count(o, cf, xf, ch) = 0 THEN Dead ELSE h[o]]

\* The font keys a run registers and unregisters: every key when the
\* threads work on the shared store, the key of the instance under test
\* when one context is queried for that instance.
ManagedKeys == IF font = NoInstance THEN Keys ELSE {font.font_key}

Init ==
    /\ lock = 0
    /\ cache_fonts = [k \in Keys |-> NoObj]
    /\ ctx_fonts = [t \in Threads |-> [k \in Keys |-> NoObj]]
    /\ heap = [o \in ObjIds |-> Dead]
    /\ pc = [t \in Threads |-> "idle"]
    /\ arg = [t \in Threads |-> NoArg]
    /\ cached = [t \in Threads |-> NoObj]
    /\ calls = 0
    /\ backend = "fontdue"
    /\ fonts = [k \in Keys |-> NoFont]
    /\ cache = {}
    /\ font = NoInstance
    /\ key = NoGlyphKey
    /\ out = NoOut

\* ------------------------------------------------ FontCache::cache_mut
\* try_lock: Some(guard) iff the mutex is free.
try_lock_ok == lock = 0

\* add_raw_font / add_native_font enter with_font, whose cache_mut either
\* takes the lock or returns None at once.
with_font_enter(t, k, tpl) ==
    /\ backend = "fontdue"
    /\ pc[t] = "idle"
    /\ calls < MaxCalls
    /\ calls' = calls + 1
    /\ arg' = [arg EXCEPT ![t] = [key |-> k, template |-> tpl]]
    /\ IF try_lock_ok
         THEN /\ lock' = t
              /\ pc' = [pc EXCEPT ![t] = "with_font"]
         ELSE /\ lock' = lock
              /\ pc' = [pc EXCEPT ![t] = "add_font"]
    /\ UNCHANGED <<cache_fonts, ctx_fonts, heap, cached, swash_vars>>
    /\ UNCHANGED out

add_raw_font(t, templates) ==
    \E k \in ManagedKeys, d \in templates :
        with_font_enter(t, k, [kind |-> "Raw", data |-> d])

add_native_font(t) ==
    \E k \in ManagedKeys :
        with_font_enter(t, k, [kind |-> "Native", data |-> <<"A", 0>>])

\* with_font that parses the supplied template again and replaces the entry
\* when the bytes or the index differ from the registered ones.
with_font_reparse(t) ==
    /\ pc[t] = "with_font"
    /\ lock' = 0
    /\ LET k == arg[t].key
           tpl == arg[t].template
       IN IF cache_fonts[k] # NoObj /\ heap[cache_fonts[k]].data = tpl.data
            THEN /\ cached' = [cached EXCEPT ![t] = cache_fonts[k]]
                 /\ pc' = [pc EXCEPT ![t] = "add_font"]
                 /\ UNCHANGED <<cache_fonts, heap>>
            ELSE IF tpl.kind = "Native" \/ ~from_bytes_ok(tpl.data)
            THEN /\ pc' = [pc EXCEPT ![t] = "panicked"]
                 /\ UNCHANGED <<cache_fonts, heap, cached>>
            ELSE /\ heap' = [heap EXCEPT ![Arc_new] =
                                [hash |-> k, data |-> tpl.data]]
                 /\ cache_fonts' = [cache_fonts EXCEPT ![k] = Arc_new]
                 /\ cached' = [cached EXCEPT ![t] = Arc_new]
                 /\ pc' = [pc EXCEPT ![t] = "add_font"]
    /\ UNCHANGED <<ctx_fonts, arg, calls, swash_vars>>
    /\ UNCHANGED out

\* with_font whose guard stays locked when the closure panics.
with_font_poisoned(t) ==
    /\ pc[t] = "with_font"
    /\ LET k == arg[t].key
           tpl == arg[t].template
       IN IF cache_fonts[k] # NoObj
            THEN /\ lock' = 0
                 /\ cached' = [cached EXCEPT ![t] = cache_fonts[k]]
                 /\ pc' = [pc EXCEPT ![t] = "add_font"]
                 /\ UNCHANGED <<cache_fonts, heap>>
            ELSE IF tpl.kind = "Native" \/ ~from_bytes_ok(tpl.data)
            THEN /\ lock' = lock
                 /\ pc' = [pc EXCEPT ![t] = "panicked"]
                 /\ UNCHANGED <<cache_fonts, heap, cached>>
            ELSE /\ lock' = 0
                 /\ heap' = [heap EXCEPT ![Arc_new] =
                                [hash |-> k, data |-> tpl.data]]
                 /\ cache_fonts' = [cache_fonts EXCEPT ![k] = Arc_new]
                 /\ cached' = [cached EXCEPT ![t] = Arc_new]
                 /\ pc' = [pc EXCEPT ![t] = "add_font"]
    /\ UNCHANGED <<ctx_fonts, arg, calls, swash_vars>>
    /\ UNCHANGED out

\* The closure of with_font, run under the guard; the guard is dropped when
\* cache_mut returns or unwinds (parking_lot has no poisoning).
with_font(t) ==
    /\ pc[t] = "with_font"
    /\ lock' = 0
    /\ LET k == arg[t].key
           tpl == arg[t].template
       IN IF cache_fonts[k] # NoObj
            THEN \* already present: p(cached.clone())
                 /\ cached' = [cached EXCEPT ![t] = cache_fonts[k]]
                 /\ pc' = [pc EXCEPT ![t] = "add_font"]
                 /\ UNCHANGED <<cache_fonts, heap>>
            ELSE IF tpl.kind = "Native" \/ ~from_bytes_ok(tpl.data)
            THEN \* todo!() / panic!("Faile to create fontdue instance")
                 /\ pc' = [pc EXCEPT ![t] = "panicked"]
                 /\ UNCHANGED <<cache_fonts, heap, cached>>
            ELSE \* parse, insert, return the new Arc
                 /\ heap' = [heap EXCEPT ![Arc_new] =
                                [hash |-> k, data |-> tpl.data]]
                 /\ cache_fonts' = [cache_fonts EXCEPT ![k] = Arc_new]
                 /\ cached' = [cached EXCEPT ![t] = Arc_new]
                 /\ pc' = [pc EXCEPT ![t] = "add_font"]
    /\ UNCHANGED <<ctx_fonts, arg, calls, swash_vars>>
    /\ UNCHANGED out

\* add_font that, finding the store unavailable, parses the bytes itself and
\* keeps a font of its own.
add_font_parses_locally(t) ==
    /\ pc[t] = "add_font"
    /\ LET k == arg[t].key
           own == cached[t] = NoObj /\ ctx_fonts[t][k] = NoObj
                    /\ arg[t].template.kind = "Raw"
                    /\ from_bytes_ok(arg[t].template.data)
           xf == IF cached[t] # NoObj /\ ctx_fonts[t][k] = NoObj
                   THEN [ctx_fonts EXCEPT ![t][k] = cached[t]]
                   ELSE IF own THEN [ctx_fonts EXCEPT ![t][k] = Arc_new]
                   ELSE ctx_fonts
           ch == [cached EXCEPT ![t] = NoObj]
           hp == IF own
                   THEN [heap EXCEPT ![Arc_new] =
                           [hash |-> k, data |-> arg[t].template.data]]
                   ELSE heap
       IN /\ ctx_fonts' = xf
          /\ cached' = ch
          /\ heap' = Dealloc(hp, cache_fonts, xf, ch)
    /\ pc' = [pc EXCEPT ![t] = "idle"]
    /\ arg' = [arg EXCEPT ![t] = NoArg]
    /\ UNCHANGED <<lock, cache_fonts, calls, swash_vars>>
    /\ out' = forget(out)

\* if let Some(cached) = cached { self.fonts.entry(key).or_insert_with(|| cached) }
add_font(t) ==
    /\ pc[t] = "add_font"
    /\ LET k == arg[t].key
           xf == IF cached[t] # NoObj /\ ctx_fonts[t][k] = NoObj
                   THEN [ctx_fonts EXCEPT ![t][k] = cached[t]]
                   ELSE ctx_fonts
           ch == [cached EXCEPT ![t] = NoObj]
       IN /\ ctx_fonts' = xf
          /\ cached' = ch
          /\ heap' = Dealloc(heap, cache_fonts, xf, ch)
    /\ pc' = [pc EXCEPT ![t] = "idle"]
    /\ arg' = [arg EXCEPT ![t] = NoArg]
    /\ UNCHANGED <<lock, cache_fonts, calls, swash_vars>>
    /\ out' = forget(out)

\* --------------------------------------------- FontContext::delete_font
\* self.fonts.remove(font_key), then the strong_count test.
delete_font(t) ==
    \E k \in ManagedKeys :
        /\ backend = "fontdue"
        /\ pc[t] = "idle"
        /\ calls < MaxCalls
        /\ calls' = calls + 1
        /\ ctx_fonts[t][k] # NoObj
        /\ LET o == ctx_fonts[t][k]
               xf == [ctx_fonts EXCEPT ![t][k] = NoObj]
               ch == [cached EXCEPT ![t] = o]
           IN /\ ctx_fonts' = xf
              /\ cached' = ch
              /\ pc' = [pc EXCEPT ![t] =
                          IF strong_count(o, cache_fonts, xf, ch) <= 2
                            THEN "cache_delete_font" ELSE "drop"]
        /\ UNCHANGED <<lock, cache_fonts, heap, arg, swash_vars>>
        /\ out' = forget(out)

\* FontCache::delete_font: cache_mut either takes the lock or gives up.
cache_delete_font(t) ==
    /\ pc[t] = "cache_delete_font"
    /\ IF try_lock_ok
         THEN /\ lock' = t
              /\ pc' = [pc EXCEPT ![t] = "remove"]
         ELSE /\ lock' = lock
              /\ pc' = [pc EXCEPT ![t] = "drop"]
    /\ UNCHANGED <<cache_fonts, ctx_fonts, heap, arg, cached, calls, swash_vars>>
    /\ UNCHANGED out

\* cache.fonts.remove(&cached.hash) under the guard, then the guard drops.
remove(t) ==
    /\ pc[t] = "remove"
    /\ lock' = 0
    /\ LET cf == [cache_fonts EXCEPT ![heap[cached[t]].hash] = NoObj]
       IN /\ cache_fonts' = cf
          /\ heap' = Dealloc(heap, cf, ctx_fonts, cached)
    /\ pc' = [pc EXCEPT ![t] = "drop"]
    /\ UNCHANGED <<ctx_fonts, arg, cached, calls, swash_vars>>
    /\ UNCHANGED out

\* `cached` goes out of scope.
drop(t) ==
    /\ pc[t] = "drop"
    /\ LET ch == [cached EXCEPT ![t] = NoObj]
       IN /\ cached' = ch
          /\ heap' = Dealloc(heap, cache_fonts, ctx_fonts, ch)
    /\ pc' = [pc EXCEPT ![t] = "idle"]
    /\ UNCHANGED <<lock, cache_fonts, ctx_fonts, arg, calls, swash_vars>>
    /\ UNCHANGED out

\* ------------------------------------------- fontdue: the library calls
\* Font::metrics_indexed(index, px): a glyph has no extent at size 0.
metrics_indexed(data, glyph, px) ==
    LET g == Face(data)[glyph + 1]
    IN [width |-> IF px = 0 THEN 0 ELSE g.w,
        height |-> IF px = 0 THEN 0 ELSE g.h,
        xmin |-> g.xmin, ymin |-> g.ymin,
        advance_width |-> IF px = 0 THEN 0 ELSE g.w + 1]

\* Font::rasterize_indexed: one coverage byte per pixel.
rasterize_indexed(data, glyph, px) ==
    LET m == metrics_indexed(data, glyph, px)
    IN [i \in 1..(m.width * m.height) |-> Coverage(data, glyph, i - 1, 0)]

\* Font::rasterize_indexed_subpixel: three coverage bytes per pixel.
rasterize_indexed_subpixel(data, glyph, px) ==
    LET m == metrics_indexed(data, glyph, px)
    IN [i \in 1..(3 * m.width * m.height) |->
          Coverage(data, glyph, (i - 1) \div 3, ((i - 1) % 3) + 1)]

Max(a, b) == IF a >= b THEN a ELSE b

\* `key.index() as u16`
as_u16(n) == n % 65536

\* ------------------------------------------- fontdue: FontContext queries
\* usvg::Tree::from_data and resvg::render of the SVG document of a glyph:
\* the pixmap of the document's size, or None when the document does not
\* parse or render.
resvg_render(data, glyph_id) ==
    IF Face(data)[glyph_id + 1].svg = "ok"
      THEN [tag |-> "Some", x |-> 0, y |-> 0, width |-> 2, height |-> 1,
            data |-> [i \in 1..8 |->
                        Coverage(data, glyph_id, (i - 1) \div 4,
                                 ((i - 1) % 4) + 5)]]
      ELSE None

\* tiny_skia::Pixmap::decode_png of the bitmap strike of a glyph, placed at
\* the strike's offset.
decode_png(data, glyph_id) ==
    IF Face(data)[glyph_id + 1].png = "ok"
      THEN [tag |-> "Some", x |-> 0, y |-> 0, width |-> 1, height |-> 1,
            data |-> [i \in 1..4 |-> Coverage(data, glyph_id, 0, i)]]
      ELSE None

\* glyph_using_svg_or_raster: returns None when the face parses, and unwraps
\* the parse error otherwise; the SVG and PNG lookups that follow the unwrap
\* are never reached.
glyph_using_svg_or_raster(data, glyph_id, size) ==
    IF face_parse_ok(data) THEN None
    ELSE IF ~face_parse_ok(data) THEN Panic         \* face.unwrap()
    ELSE IF Face(data)[glyph_id + 1].svg # "none"
      THEN resvg_render(data, glyph_id)
    ELSE IF Face(data)[glyph_id + 1].png # "none"
      THEN decode_png(data, glyph_id)
    ELSE None

\* The pixel loop over a tiny_skia pixmap: (r, g, b, a) -> b, g, r, a.
pixmap_to_bgra(pixels) ==
    [j \in 1..Len(pixels) |->
        LET p == (j - 1) \div 4
            c == (j - 1) % 4
        IN CASE c = 0 -> pixels[4 * p + 3]
             [] c = 1 -> pixels[4 * p + 2]
             [] c = 2 -> pixels[4 * p + 1]
             [] OTHER -> pixels[4 * p + 4]]

\* The subpixel pixel loop without the swap for SUBPIXEL_BGR.
subpixel_to_bgra_ignores_flag(bitmap, subpixel_bgr) ==
    [j \in 1..(4 * (Len(bitmap) \div 3)) |->
        LET p == (j - 1) \div 4
            c == (j - 1) % 4
            r == bitmap[3 * p + 1]
            g == bitmap[3 * p + 2]
            b == bitmap[3 * p + 3]
        IN CASE c = 0 -> b
             [] c = 1 -> g
             [] c = 2 -> r
             [] OTHER -> Max(Max(b, g), r)]

\* The pixel loop over a subpixel bitmap, chunks(3).
subpixel_to_bgra(bitmap, subpixel_bgr) ==
    [j \in 1..(4 * (Len(bitmap) \div 3)) |->
        LET p == (j - 1) \div 4
            c == (j - 1) % 4
            r == IF subpixel_bgr THEN bitmap[3 * p + 3] ELSE bitmap[3 * p + 1]
            g == bitmap[3 * p + 2]
            b == IF subpixel_bgr THEN bitmap[3 * p + 1] ELSE bitmap[3 * p + 3]
        IN CASE c = 0 -> b
             [] c = 1 -> g
             [] c = 2 -> r
             [] OTHER -> Max(Max(b, g), r)]

\* The mask pixel loop that pushes the pixels last to first.
mask_to_bgra_reversed(bitmap) ==
    [j \in 1..(4 * Len(bitmap)) |-> bitmap[Len(bitmap) - ((j - 1) \div 4)]]

\* The pixel loop over a coverage mask: alpha pushed four times.
mask_to_bgra(bitmap) ==
    [j \in 1..(4 * Len(bitmap)) |-> bitmap[((j - 1) \div 4) + 1]]

get_glyph_index(xf, h, font_key, ch) ==
    IF xf[font_key] = NoObj THEN None
    ELSE LET index == lookup_glyph_index(h[xf[font_key]].data, ch)
         IN IF index = 0 THEN None ELSE [tag |-> "Some", index |-> index]

get_glyph_dimensions(xf, h, f, k) ==
    IF xf[f.font_key] = NoObj THEN None
    ELSE LET metrics == metrics_indexed(h[xf[f.font_key]].data,
                                        as_u16(k.index), f.size)
         IN IF metrics.width = 0 \/ metrics.height = 0 THEN None
            ELSE [tag |-> "Some", left |-> metrics.xmin, top |-> metrics.ymin,
                  width |-> metrics.width, height |-> metrics.height,
                  advance |-> metrics.advance_width]

rasterize_glyph(xf, h, f, k) ==
    IF xf[f.font_key] = NoObj THEN LoadFailed
    ELSE
      LET data == h[xf[f.font_key]].data
          glyph == as_u16(k.index)
          metrics == metrics_indexed(data, glyph, f.size)
          bitmap == IF f.render_mode = "Subpixel"
                      THEN rasterize_indexed_subpixel(data, glyph, f.size)
                      ELSE rasterize_indexed(data, glyph, f.size)
      IN IF metrics.width = 0 \/ metrics.height = 0
           THEN LET img == glyph_using_svg_or_raster(data, glyph, f.size)
                IN IF img.tag = "Some"
                     THEN [tag |-> "Ok", left |-> img.x,
                           top |-> img.height + img.y,
                           width |-> img.width, height |-> img.height,
                           scale |-> <<f.size, Max(img.width, img.height)>>,
                           format |-> "ColorBitmap",
                           bytes |-> pixmap_to_bgra(img.data)]
                   ELSE IF img.tag = "Panic" THEN Panic
                   ELSE LoadFailed
           ELSE [tag |-> "Ok", left |-> metrics.xmin,
                 top |-> metrics.height + metrics.ymin,
                 width |-> metrics.width, height |-> metrics.height,
                 scale |-> <<1, 1>>,
                 format |-> IF f.render_mode = "Subpixel"
                              THEN "Subpixel" ELSE "Bitmap",
                 bytes |-> IF f.render_mode = "Subpixel"
                             THEN subpixel_to_bgra(bitmap,
                                      "SUBPIXEL_BGR" \in f.flags)
                             ELSE mask_to_bgra(bitmap)]

\* A query that goes through the store's mutex and runs only when it is
\* free.
fontdue_query_locked(t, op, res) ==
    /\ backend = "fontdue"
    /\ pc[t] = "idle"
    /\ calls < MaxCalls
    /\ try_lock_ok
    /\ calls' = calls + 1
    /\ out' = [op |-> op, res |-> res,
               ras |-> IF op = "rasterize_glyph" THEN res ELSE out.ras,
               again |-> IF op = "rasterize_glyph"
                           THEN out.ras.tag # "none" ELSE out.again]
    /\ pc' = [pc EXCEPT ![t] = IF res = Panic THEN "panicked" ELSE "idle"]
    /\ UNCHANGED <<lock, cache_fonts, ctx_fonts, heap, arg, cached, swash_vars>>

\* A query call of thread t: it runs on the thread's own context only.
fontdue_query(t, op, res) ==
    /\ backend = "fontdue"
    /\ pc[t] = "idle"
    /\ calls < MaxCalls
    /\ calls' = calls + 1
    /\ out' = [op |-> op, res |-> res,
               ras |-> IF op = "rasterize_glyph" THEN res ELSE out.ras,
               again |-> IF op = "rasterize_glyph"
                           THEN out.ras.tag # "none" ELSE out.again]
    /\ pc' = [pc EXCEPT ![t] = IF res = Panic THEN "panicked" ELSE "idle"]
    /\ UNCHANGED <<lock, cache_fonts, ctx_fonts, heap, arg, cached, swash_vars>>

fontdue_get_glyph_index_of(t, font_key, ch) ==
    fontdue_query(t, "get_glyph_index",
                  get_glyph_index(ctx_fonts[t], heap, font_key, ch))

fontdue_get_glyph_index(t) ==
    \E k \in Keys, ch \in Chars : fontdue_get_glyph_index_of(t, k, ch)

fontdue_get_glyph_dimensions_of(t, instance, glyph_key) ==
    fontdue_query(t, "get_glyph_dimensions",
                  get_glyph_dimensions(ctx_fonts[t], heap, instance, glyph_key))

fontdue_get_glyph_dimensions(t) == fontdue_get_glyph_dimensions_of(t, font, key)

fontdue_rasterize_glyph_of(t, instance, glyph_key) ==
    fontdue_query(t, "rasterize_glyph",
                  rasterize_glyph(ctx_fonts[t], heap, instance, glyph_key))

fontdue_rasterize_glyph(t) == fontdue_rasterize_glyph_of(t, font, key)

\* pub fn delete_font_instance(&mut self, _: &FontInstance) {}
fontdue_delete_font_instance(t) ==
    /\ backend = "fontdue"
    /\ pc[t] = "idle"
    /\ calls < MaxCalls
    /\ calls' = calls + 1
    /\ out' = [out EXCEPT !.op = "delete_font_instance"]
    /\ UNCHANGED <<lock, cache_fonts, ctx_fonts, heap, pc, arg, cached,
                   swash_vars>>

\* ------------------------------------------------ swash: the library calls
\* font_index::Font::from_data(data, index): Some iff the face exists.
from_data_ok(data) == data[2] < NumFaces(data[1])

\* font_index::FontCache::get(FontId(handle)): the system font of that id
\* (file "S" is installed under id 1, no font under id 0).
NativeHandles == {0, 1}
font_cache_get(handle) == IF handle = 1 THEN <<"S", 0>> ELSE NoFont

\* Glyph 3 of the second face of "B" is a COLR glyph painted in the
\* foreground colour.
is_colr(data, glyph) == data = <<"B", 1>> /\ glyph = 3

GlyphImage(l, t, w, h, content, data) ==
    [left |-> l, top |-> t, width |-> w, height |-> h,
     content |-> content, data |-> data]

\* swash Render::render over [ColorOutline, ColorBitmap, Outline]: a COLR
\* glyph or a bitmap strike gives Content::Color (4 bytes a pixel), an
\* outline gives a Mask (1 byte) or a SubpixelMask (4 bytes, the fourth
\* being the renderer's own, not derived from the other three), an outline
\* without extent an empty image, and a glyph none of the sources can
\* produce gives None.
Render_render(data, glyph, size, format, offset, color) ==
    LET g == Face(data)[glyph + 1]
        w == IF size = 0 THEN 0 ELSE g.w
        h == IF size = 0 THEN 0 ELSE g.h
    IN IF is_colr(data, glyph) /\ size # 0
         THEN GlyphImage(g.xmin, g.ymin + h, w, h, "Color",
                  [i \in 1..(4 * w * h) |-> color[((i - 1) % 4) + 1]])
       ELSE IF g.png = "ok" /\ size # 0
         THEN GlyphImage(0, 1, 1, 1, "Color",
                  [i \in 1..4 |-> Coverage(data, glyph, 0, i)])
       ELSE IF g.png = "bad"
         THEN None
       ELSE IF format = "Alpha"
         THEN GlyphImage(g.xmin, g.ymin + h, w, h, "Mask",
                  [i \in 1..(w * h) |->
                      (Coverage(data, glyph, i - 1, 0) + offset) % 256])
       ELSE GlyphImage(g.xmin, g.ymin + h, w, h, "SubpixelMask",
                  [i \in 1..(4 * w * h) |->
                      (Coverage(data, glyph, (i - 1) \div 4, ((i - 1) % 4) + 1)
                         + offset) % 256])

\* glyph_metrics(..).scale(size).advance_width(glyph)
advance_width(data, glyph, size) ==
    IF size = 0 THEN 0 ELSE Face(data)[glyph + 1].w + 1

\* ---------------------------------------------------- swash: FontContext
is_bitmap_font(f) == "EMBEDDED_BITMAPS" \in f.flags

\* render_glyph that asks for an alpha mask in every render mode.
render_glyph_always_alpha(data, instance, glyph_key) ==
    LET size == instance.size
        offset == IF is_bitmap_font(instance) THEN 0 ELSE glyph_key.subpx
    IN Render_render(data, as_u16(glyph_key.index), size, "Alpha", offset,
                     instance.color)

\* render_glyph: the identity transform is the only one modelled, so the
\* scale is (1, 1); a bitmap font is rendered without sub-pixel offset.
render_glyph(data, instance, glyph_key) ==
    LET size == instance.size
        offset == IF is_bitmap_font(instance) THEN 0 ELSE glyph_key.subpx
        format == IF instance.render_mode \in {"Mono", "Alpha"}
                    THEN "Alpha" ELSE "Subpixel"
    IN Render_render(data, as_u16(glyph_key.index), size, format, offset,
                     instance.color)

\* The cache is a map, held as the set of its (instance, glyph key, image)
\* entries.
cache_has(c, instance, glyph_key) ==
    \E e \in c : e.instance = instance /\ e.glyph_key = glyph_key
cache_get(c, instance, glyph_key) ==
    (CHOOSE e \in c : e.instance = instance /\ e.glyph_key = glyph_key).image

\* get_or_create_cache that moves the pixel data out to the caller and
\* leaves an image without data in the cache.
get_or_create_cache_moves_data(fs, c, instance, glyph_key) ==
    IF cache_has(c, instance, glyph_key)
      THEN [res |-> cache_get(c, instance, glyph_key), cache |-> c]
      ELSE IF fs[instance.font_key] = NoFont
        THEN [res |-> Panic, cache |-> c]
        ELSE LET glyph == render_glyph(fs[instance.font_key], instance,
                                       glyph_key)
             IN IF glyph # None
                  THEN [res |-> glyph,
                        cache |-> c \cup {[instance |-> instance,
                                           glyph_key |-> glyph_key,
                                           image |-> [glyph EXCEPT
                                              !.data = [i \in DOMAIN glyph.data
                                                          |-> 0]]]}]
                  ELSE [res |-> None, cache |-> c]

\* get_or_create_cache that keeps only the image rendered last.
get_or_create_cache_single_slot(fs, c, instance, glyph_key) ==
    IF cache_has(c, instance, glyph_key)
      THEN [res |-> cache_get(c, instance, glyph_key), cache |-> c]
      ELSE IF fs[instance.font_key] = NoFont
        THEN [res |-> Panic, cache |-> c]
        ELSE LET glyph == render_glyph(fs[instance.font_key], instance,
                                       glyph_key)
             IN IF glyph # None
                  THEN [res |-> glyph,
                        cache |-> {[instance |-> instance,
                                    glyph_key |-> glyph_key,
                                    image |-> glyph]}]
                  ELSE [res |-> None, cache |-> c]

\* get_or_create_cache: the result and the cache it leaves.
get_or_create_cache(fs, c, instance, glyph_key) ==
    IF cache_has(c, instance, glyph_key)
      THEN [res |-> cache_get(c, instance, glyph_key), cache |-> c]
      ELSE IF fs[instance.font_key] = NoFont
        THEN [res |-> Panic, cache |-> c]    \* fonts.get(..).unwrap()
        ELSE LET glyph == render_glyph(fs[instance.font_key], instance,
                                       glyph_key)
             IN IF glyph # None
                  THEN [res |-> glyph,
                        cache |-> c \cup {[instance |-> instance,
                                           glyph_key |-> glyph_key,
                                           image |-> glyph]}]
                  ELSE [res |-> None, cache |-> c]

\* FontInstance::get_alpha_glyph_format, get_subpixel_glyph_format: the
\* format tag of a coverage mask and of a subpixel mask of the instance.
get_alpha_glyph_format(instance) == "Alpha"
get_subpixel_glyph_format(instance) == "Subpixel"

\* Content::Color | Content::SubpixelMask: chunks_exact(4), [b, g, r, a].
color_to_bgra(pixels, subpixel_bgr) ==
    [j \in 1..(4 * (Len(pixels) \div 4)) |->
        LET p == (j - 1) \div 4
            c == (j - 1) % 4
            r == IF subpixel_bgr THEN pixels[4 * p + 3] ELSE pixels[4 * p + 1]
            b == IF subpixel_bgr THEN pixels[4 * p + 1] ELSE pixels[4 * p + 3]
        IN CASE c = 0 -> b
             [] c = 1 -> pixels[4 * p + 2]
             [] c = 2 -> r
             [] OTHER -> pixels[4 * p + 4]]

\* rasterize_glyph without the test for an empty rect.
swash_rasterize_empty_rect(glyph_image, instance) ==
    IF glyph_image = Panic THEN Panic
    ELSE IF glyph_image = None THEN LoadFailed
    ELSE IF glyph_image.content \in {"Color", "SubpixelMask"}
              /\ glyph_image.width * glyph_image.height * 4
                    # Len(glyph_image.data)
      THEN Panic
    ELSE [tag |-> "Ok", left |-> glyph_image.left, top |-> glyph_image.top,
          width |-> glyph_image.width, height |-> glyph_image.height,
          scale |-> <<1, 1>>,
          format |-> CASE glyph_image.content = "Mask"
                            -> get_alpha_glyph_format(instance)
                       [] glyph_image.content = "SubpixelMask"
                            -> get_subpixel_glyph_format(instance)
                       [] OTHER -> "ColorBitmap",
          bytes |-> IF glyph_image.content = "Mask"
                      THEN mask_to_bgra(glyph_image.data)
                      ELSE color_to_bgra(glyph_image.data,
                               "SUBPIXEL_BGR" \in instance.flags)]

\* rasterize_glyph, from the image get_or_create_cache returned.
swash_rasterize(glyph_image, instance) ==
    IF glyph_image = Panic THEN Panic
    ELSE IF glyph_image = None THEN LoadFailed
    ELSE IF glyph_image.width = 0 \/ glyph_image.height = 0 THEN LoadFailed
    ELSE IF glyph_image.content \in {"Color", "SubpixelMask"}
              /\ glyph_image.width * glyph_image.height * 4
                    # Len(glyph_image.data)
      THEN Panic                             \* assert!
    ELSE [tag |-> "Ok", left |-> glyph_image.left, top |-> glyph_image.top,
          width |-> glyph_image.width, height |-> glyph_image.height,
          scale |-> <<1, 1>>,
          format |-> CASE glyph_image.content = "Mask"
                            -> get_alpha_glyph_format(instance)
                       [] glyph_image.content = "SubpixelMask"
                            -> get_subpixel_glyph_format(instance)
                       [] OTHER -> "ColorBitmap",
          bytes |-> IF glyph_image.content = "Mask"
                      THEN mask_to_bgra(glyph_image.data)
                      ELSE color_to_bgra(glyph_image.data,
                               "SUBPIXEL_BGR" \in instance.flags)]

\* get_glyph_dimensions, from the image get_or_create_cache returned.
swash_dimensions(glyph_image, fs, instance, glyph_key) ==
    IF glyph_image = Panic THEN Panic
    ELSE IF glyph_image = None THEN None
    ELSE IF fs[instance.font_key] = NoFont THEN None
    ELSE [tag |-> "Some", left |-> glyph_image.left, top |-> glyph_image.top,
          width |-> glyph_image.width, height |-> glyph_image.height,
          advance |-> advance_width(fs[instance.font_key],
                                    as_u16(glyph_key.index), instance.size)]

\* A call on the swash context (only one context is modelled: swash
\* contexts share nothing).
swash_call ==
    /\ backend = "swash"
    /\ pc[1] = "idle"
    /\ calls < MaxCalls
    /\ calls' = calls + 1
    /\ UNCHANGED <<lock, cache_fonts, ctx_fonts, heap, arg, cached,
                   backend, font, key>>

swash_add_raw_font_of(font_key, data) ==
    /\ swash_call
    /\ fonts' = IF fonts[font_key] = NoFont /\ from_data_ok(data)
                  THEN [fonts EXCEPT ![font_key] = data] ELSE fonts
    /\ out' = forget(out)
    /\ UNCHANGED <<cache, pc>>

swash_add_raw_font ==
    \E font_key \in ManagedKeys, data \in RawTemplates :
        swash_add_raw_font_of(font_key, data)

swash_add_native_font_of(font_key, handle) ==
    /\ swash_call
    /\ fonts' = IF fonts[font_key] = NoFont
                     /\ font_cache_get(handle) # NoFont
                  THEN [fonts EXCEPT ![font_key] = font_cache_get(handle)]
                  ELSE fonts
    /\ out' = forget(out)
    /\ UNCHANGED <<cache, pc>>

swash_add_native_font ==
    \E font_key \in ManagedKeys, handle \in NativeHandles :
        swash_add_native_font_of(font_key, handle)

\* delete_font that leaves the glyph-image cache alone.
swash_delete_font_keeps_cache(font_key) ==
    /\ swash_call
    /\ fonts' = [fonts EXCEPT ![font_key] = NoFont]
    /\ out' = forget(out)
    /\ UNCHANGED <<cache, pc>>

\* delete_font whose retain keeps the images of the deleted font and drops
\* the others.
swash_delete_font_inverted(font_key) ==
    /\ swash_call
    /\ fonts' = [fonts EXCEPT ![font_key] = NoFont]
    /\ cache' = IF fonts[font_key] # NoFont
                  THEN {e \in cache : e.instance.font_key = font_key}
                  ELSE cache
    /\ out' = forget(out)
    /\ UNCHANGED pc

swash_delete_font_of(font_key) ==
    /\ swash_call
    /\ fonts' = [fonts EXCEPT ![font_key] = NoFont]
    /\ cache' = IF fonts[font_key] # NoFont
                  THEN {e \in cache : e.instance.font_key # font_key}
                  ELSE cache
    /\ out' = forget(out)
    /\ UNCHANGED pc

swash_delete_font ==
    \E font_key \in ManagedKeys : swash_delete_font_of(font_key)

\* delete_font_instance whose retain keeps the entries it should remove.
swash_delete_font_instance_inverted(instance) ==
    /\ swash_call
    /\ cache' = {e \in cache :
                    e.instance.instance_key = instance.instance_key}
    /\ out' = [out EXCEPT !.op = "delete_font_instance",
                          !.res = [tag |-> "Unit", instance |-> instance]]
    /\ UNCHANGED <<fonts, pc>>

\* delete_font_instance that also unregisters the font of the instance.
swash_delete_font_instance_drops_font(instance) ==
    /\ swash_call
    /\ cache' = {e \in cache :
                    e.instance.instance_key # instance.instance_key}
    /\ fonts' = [k \in Keys |->
                    IF k = instance.font_key THEN NoFont ELSE fonts[k]]
    /\ out' = [out EXCEPT !.op = "delete_font_instance",
                          !.res = [tag |-> "Unit", instance |-> instance]]
    /\ UNCHANGED pc

\* delete_font_instance that empties the whole cache.
swash_delete_font_instance_clears(instance) ==
    /\ swash_call
    /\ cache' = {}
    /\ out' = [out EXCEPT !.op = "delete_font_instance",
                          !.res = [tag |-> "Unit", instance |-> instance]]
    /\ UNCHANGED <<fonts, pc>>

swash_delete_font_instance_of(instance) ==
    /\ swash_call
    /\ cache' = {e \in cache :
                    e.instance.instance_key # instance.instance_key}
    /\ out' = [out EXCEPT !.op = "delete_font_instance",
                          !.res = [tag |-> "Unit", instance |-> instance]]
    /\ UNCHANGED <<fonts, pc>>

swash_delete_font_instance == swash_delete_font_instance_of(font)

swash_get_glyph_index_of(font_key, ch) ==
    /\ swash_call
    /\ out' = [out EXCEPT
                 !.op = "get_glyph_index",
                 !.res = IF fonts[font_key] = NoFont THEN None
                         ELSE [tag |-> "Some",
                               index |-> lookup_glyph_index(
                                             fonts[font_key], ch)]]
    /\ UNCHANGED <<fonts, cache, pc>>

swash_get_glyph_index ==
    \E font_key \in Keys, ch \in Chars : swash_get_glyph_index_of(font_key, ch)

swash_get_glyph_dimensions_of(instance, glyph_key) ==
    /\ swash_call
    /\ LET got == get_or_create_cache(fonts, cache, instance, glyph_key)
           res == swash_dimensions(got.res, fonts, instance, glyph_key)
       IN /\ cache' = got.cache
          /\ out' = [out EXCEPT !.op = "get_glyph_dimensions", !.res = res]
          /\ pc' = [pc EXCEPT ![1] = IF res = Panic THEN "panicked" ELSE "idle"]
    /\ UNCHANGED fonts

swash_get_glyph_dimensions == swash_get_glyph_dimensions_of(font, key)

swash_rasterize_glyph_of(instance, glyph_key) ==
    /\ swash_call
    /\ LET got == get_or_create_cache(fonts, cache, instance, glyph_key)
           res == swash_rasterize(got.res, instance)
       IN /\ cache' = got.cache
          /\ out' = [op |-> "rasterize_glyph", res |-> res, ras |-> res,
                     again |-> out.ras.tag # "none"]
          /\ pc' = [pc EXCEPT ![1] = IF res = Panic THEN "panicked" ELSE "idle"]
    /\ UNCHANGED fonts

swash_rasterize_glyph == swash_rasterize_glyph_of(font, key)

Next ==
    \E t \in Threads :
        \/ add_raw_font(t, StoreTemplates)
        \/ add_native_font(t)
        \/ with_font(t)
        \/ add_font(t)
        \/ delete_font(t)
        \/ cache_delete_font(t)
        \/ remove(t)
        \/ drop(t)

Spec == Init /\ [][Next]_vars

\* One worker thread on either back end, with one font instance and glyph
\* key under test.
InitRaster ==
    /\ lock = 0
    /\ cache_fonts = [k \in Keys |-> NoObj]
    /\ ctx_fonts = [t \in Threads |-> [k \in Keys |-> NoObj]]
    /\ heap = [o \in ObjIds |-> Dead]
    /\ pc = [t \in Threads |-> "idle"]
    /\ arg = [t \in Threads |-> NoArg]
    /\ cached = [t \in Threads |-> NoObj]
    /\ calls = 0
    /\ backend \in {"fontdue", "swash"}
    /\ fonts = [k \in Keys |-> NoFont]
    /\ cache = {}
    /\ font \in Instances
    /\ key \in GlyphKeys
    /\ out = NoOut

NextRaster ==
    \/ add_raw_font(1, RawTemplates)
    \/ add_native_font(1)
    \/ with_font(1)
    \/ add_font(1)
    \/ delete_font(1)
    \/ cache_delete_font(1)
    \/ remove(1)
    \/ drop(1)
    \/ fontdue_get_glyph_index(1)
    \/ fontdue_get_glyph_dimensions(1)
    \/ fontdue_rasterize_glyph(1)
    \/ swash_add_raw_font
    \/ swash_add_native_font
    \/ swash_delete_font
    \/ swash_delete_font_instance
    \/ swash_get_glyph_index
    \/ swash_get_glyph_dimensions
    \/ swash_rasterize_glyph

SpecRaster == InitRaster /\ [][NextRaster]_vars

\* One context on either back end, queried for several font instances and
\* glyph keys: two instances of the first font that share an instance key
\* and differ in the render mode, and an instance of the last font with an
\* instance key of its own.
CacheInstance(k, ik, m) ==
    [font_key |-> k, instance_key |-> ik, size |-> 16, render_mode |-> m,
     flags |-> {}, color |-> ColorU(255, 255, 255, 255)]

CacheInstances ==
    {CacheInstance(1, 1, "Alpha"), CacheInstance(1, 1, "Subpixel"),
     CacheInstance(NumKeys, 2, "Alpha")}

CacheKeys == {[index |-> 1, subpx |-> 0], [index |-> 2, subpx |-> 0]}

InitCache ==
    /\ lock = 0
    /\ cache_fonts = [k \in Keys |-> NoObj]
    /\ ctx_fonts = [t \in Threads |-> [k \in Keys |-> NoObj]]
    /\ heap = [o \in ObjIds |-> Dead]
    /\ pc = [t \in Threads |-> "idle"]
    /\ arg = [t \in Threads |-> NoArg]
    /\ cached = [t \in Threads |-> NoObj]
    /\ calls = 0
    /\ backend \in {"fontdue", "swash"}
    /\ fonts = [k \in Keys |-> NoFont]
    /\ cache = {}
    /\ font = NoInstance
    /\ key = NoGlyphKey
    /\ out = NoOut

NextCache ==
    \/ add_raw_font(1, RawTemplates)
    \/ add_native_font(1)
    \/ with_font(1)
    \/ add_font(1)
    \/ delete_font(1)
    \/ cache_delete_font(1)
    \/ remove(1)
    \/ drop(1)
    \/ fontdue_delete_font_instance(1)
    \/ fontdue_get_glyph_index(1)
    \/ \E i \in CacheInstances, g \in CacheKeys :
          fontdue_get_glyph_dimensions_of(1, i, g)
    \/ \E i \in CacheInstances, g \in CacheKeys :
          fontdue_rasterize_glyph_of(1, i, g)
    \/ swash_add_raw_font
    \/ swash_add_native_font
    \/ swash_delete_font
    \/ \E i \in CacheInstances : swash_delete_font_instance_of(i)
    \/ swash_get_glyph_index
    \/ \E i \in CacheInstances, g \in CacheKeys :
          swash_get_glyph_dimensions_of(i, g)
    \/ \E i \in CacheInstances, g \in CacheKeys :
          swash_rasterize_glyph_of(i, g)

SpecCache == InitCache /\ [][NextCache]_vars

\* A running thread keeps running: every step inside a call is eventually
\* taken.  Calls themselves are issued at the caller's discretion.
Step(t) ==
    with_font(t) \/ add_font(t) \/ cache_delete_font(t) \/ remove(t) \/ drop(t)

FairSpec == Spec /\ \A t \in Threads : WF_vars(Step(t))

\* ------------------------------------------------------------ prepare_font
\* FontInstance::disable_subpixel_position: clears the flag that asks for
\* fractional glyph positions.
disable_subpixel_position(f) ==
    [f EXCEPT !.flags = @ \ {"SUBPIXEL_POSITION"}]

\* prepare_font whose grayscale and subpixel arm leaves the colour alone.
prepare_font_keeps_color(f) ==
    IF f.render_mode = "Mono"
      THEN disable_subpixel_position(
               [f EXCEPT !.color = ColorU(255, 255, 255, 255)])
      ELSE f

\* fontdue FontContext::prepare_font
prepare_font(f) ==
    IF f.render_mode = "Mono"
      THEN disable_subpixel_position(
               [f EXCEPT !.color = ColorU(255, 255, 255, 255)])
      ELSE [f EXCEPT !.color = ColorU(255, 255, 255, 255)]

\* swash FontContext::prepare_font
swash_prepare(f) ==
    IF f.render_mode = "Mono"
      THEN disable_subpixel_position(
               [f EXCEPT !.color = ColorU(255, 255, 255, 255)])
      ELSE [f EXCEPT !.color = ColorU(255, 255, 255, 255)]

\* prepare_font(&mut font): the caller's instance is changed in place;
\* out.res keeps the instance as it was handed in.
fontdue_prepare_font(t) ==
    /\ backend = "fontdue"
    /\ pc[t] = "idle"
    /\ calls < MaxCalls
    /\ calls' = calls + 1
    /\ font' = prepare_font(font)
    /\ out' = [out EXCEPT !.op = "prepare_font",
                          !.res = [tag |-> "Unit", instance |-> font]]
    /\ UNCHANGED <<lock, cache_fonts, ctx_fonts, heap, pc, arg, cached,
                   backend, fonts, cache, key>>

swash_prepare_font ==
    /\ backend = "swash"
    /\ pc[1] = "idle"
    /\ calls < MaxCalls
    /\ calls' = calls + 1
    /\ font' = swash_prepare(font)
    /\ out' = [out EXCEPT !.op = "prepare_font",
                          !.res = [tag |-> "Unit", instance |-> font]]
    /\ UNCHANGED <<lock, cache_fonts, ctx_fonts, heap, pc, arg, cached,
                   backend, fonts, cache, key>>

\* The instances handed to prepare_font: every render mode, with and without
\* the sub-pixel position flag, in a colour that is white or not, under a
\* transform that is the identity or not.
PrepareInstances ==
    [font_key : Keys, instance_key : {1}, size : {0, 16},
     render_mode : {"Mono", "Alpha", "Subpixel"},
     flags : SUBSET {"SUBPIXEL_POSITION", "SUBPIXEL_BGR"},
     color : {ColorU(255, 255, 255, 255), ColorU(200, 10, 30, 128)},
     transform : {"identity", "skew"}]

InitPrepare ==
    /\ lock = 0
    /\ cache_fonts = [k \in Keys |-> NoObj]
    /\ ctx_fonts = [t \in Threads |-> [k \in Keys |-> NoObj]]
    /\ heap = [o \in ObjIds |-> Dead]
    /\ pc = [t \in Threads |-> "idle"]
    /\ arg = [t \in Threads |-> NoArg]
    /\ cached = [t \in Threads |-> NoObj]
    /\ calls = 0
    /\ backend \in {"fontdue", "swash"}
    /\ fonts = [k \in Keys |-> NoFont]
    /\ cache = {}
    /\ font \in PrepareInstances
    /\ key = NoGlyphKey
    /\ out = NoOut

NextPrepare ==
    \/ fontdue_prepare_font(1)
    \/ swash_prepare_font

SpecPrepare == InitPrepare /\ [][NextPrepare]_vars

\* The worker threads register and delete the font of one instance in the
\* shared store while each of them queries its own context for it.
QueryInstances == {CacheInstance(1, 1, "Alpha")}
QueryKeys == {[index |-> 1, subpx |-> 0]}
QueryChars == {"a", "z"}

InitQuery ==
    /\ lock = 0
    /\ cache_fonts = [k \in Keys |-> NoObj]
    /\ ctx_fonts = [t \in Threads |-> [k \in Keys |-> NoObj]]
    /\ heap = [o \in ObjIds |-> Dead]
    /\ pc = [t \in Threads |-> "idle"]
    /\ arg = [t \in Threads |-> NoArg]
    /\ cached = [t \in Threads |-> NoObj]
    /\ calls = 0
    /\ backend = "fontdue"
    /\ fonts = [k \in Keys |-> NoFont]
    /\ cache = {}
    /\ font \in QueryInstances
    /\ key \in QueryKeys
    /\ out = NoOut

NextQuery ==
    \E t \in Threads :
        \/ add_raw_font(t, StoreTemplates)
        \/ add_native_font(t)
        \/ with_font(t)
        \/ add_font(t)
        \/ delete_font(t)
        \/ cache_delete_font(t)
        \/ remove(t)
        \/ drop(t)
        \/ \E i \in QueryInstances, ch \in QueryChars :
              fontdue_get_glyph_index_of(t, i.font_key, ch)
        \/ \E i \in QueryInstances, g \in QueryKeys :
              fontdue_get_glyph_dimensions_of(t, i, g)
        \/ \E i \in QueryInstances, g \in QueryKeys :
              fontdue_rasterize_glyph_of(t, i, g)

SpecQuery == InitQuery /\ [][NextQuery]_vars

\* ================================================================ claims
InCall(t) == pc[t] \notin {"idle", "panicked"}

\* C1: a context never holds a Cached Font for K whose store entry has been
\* removed: whenever a context has a local reference for K, the store's
\* entry for K is that same object.
C1_EvictedOnlyWhenUnreferenced ==
    \A t \in Threads, k \in Keys :
        ctx_fonts[t][k] # NoObj => cache_fonts[k] = ctx_fonts[t][k]

\* C2: once no call is in progress and no context holds a reference for K
\* any more (every context that registered K has deleted it), the store has
\* no entry for K.
C2_LastDeleteEvicts ==
    \A k \in Keys :
        (\A t \in Threads : ~InCall(t) /\ ctx_fonts[t][k] = NoObj)
            => cache_fonts[k] = NoObj

\* C3: an add_raw_font with valid bytes leaves the calling context holding
\* a local reference for the key, whatever the other threads do meanwhile.
C3_BothThreadsHoldFont ==
    [][\A t \in Threads :
         (/\ pc[t] = "add_font"
          /\ pc'[t] = "idle"
          /\ arg[t].template.kind = "Raw"
          /\ from_bytes_ok(arg[t].template.data))
            => ctx_fonts'[t][arg[t].key] # NoObj]_vars

\* C4: the lock is held only by a thread inside a store access, and every
\* call ends (returning or unwinding) with the lock free again.
C4_NoBlocking ==
    /\ [](\A t \in Threads : (lock = t) <=> pc[t] \in {"with_font", "remove"})
    /\ \A t \in Threads : (InCall(t) ~> ~InCall(t))
    /\ (lock # 0) ~> (lock = 0)

\* A thread is about to try the lock while another thread holds it.
C4_Witness ==
    \E t \in Threads :
        pc[t] = "cache_delete_font" /\ lock \notin {0, t}

\* C5: a store access that finds the lock held returns None, raises no
\* error, and the rest of the call changes neither the store's table nor
\* the caller's local map.
C5_UnavailableChangesNothing ==
    [][\A t \in Threads :
         /\ (pc[t] = "idle" /\ pc'[t] = "add_font")
               => /\ lock \notin {0, t}
                  /\ cached'[t] = NoObj
                  /\ cache_fonts' = cache_fonts /\ ctx_fonts' = ctx_fonts
         /\ (pc[t] = "add_font" /\ cached[t] = NoObj /\ pc'[t] # "add_font")
               => /\ pc'[t] = "idle"
                  /\ cache_fonts' = cache_fonts /\ ctx_fonts' = ctx_fonts
         /\ (pc[t] = "cache_delete_font" /\ lock \notin {0, t}
               /\ pc'[t] # "cache_delete_font")
               => /\ pc'[t] = "drop"
                  /\ cache_fonts' = cache_fonts /\ ctx_fonts' = ctx_fonts
         /\ (pc[t] = "drop" /\ pc'[t] # "drop")
               => /\ pc'[t] = "idle"
                  /\ cache_fonts' = cache_fonts /\ ctx_fonts' = ctx_fonts]_vars

\* add_raw_font is back from with_font with None: the store was unavailable.
C5_Witness ==
    \E t \in Threads :
        /\ pc[t] = "add_font" /\ cached[t] = NoObj
        /\ arg[t].template.kind = "Raw"
        /\ ctx_fonts[t][arg[t].key] = NoObj

\* C6: with_font on an identity already in the store hands out the stored
\* object, parses nothing and leaves the table as it is, whatever template
\* is supplied; an entry that stays in the table stays the same object.
C6_RegisterIdempotent ==
    [][/\ \A t \in Threads :
            (pc[t] = "with_font" /\ pc'[t] # "with_font"
                /\ cache_fonts[arg[t].key] # NoObj)
               => /\ pc'[t] = "add_font"
                  /\ cached'[t] = cache_fonts[arg[t].key]
                  /\ cache_fonts' = cache_fonts
                  /\ heap' = heap
       /\ \A k \in Keys :
            (cache_fonts[k] # NoObj /\ cache_fonts'[k] # NoObj)
               => /\ cache_fonts'[k] = cache_fonts[k]
                  /\ heap'[cache_fonts[k]] = heap[cache_fonts[k]]]_vars

\* with_font is about to run for a registered identity with other bytes or
\* another collection index than the registered font has.
C6_Witness ==
    \E t \in Threads :
        /\ pc[t] = "with_font"
        /\ cache_fonts[arg[t].key] # NoObj
        /\ arg[t].template.kind = "Raw"
        /\ arg[t].template.data # heap[cache_fonts[arg[t].key]].data

\* C7: rasterize_glyph for a font_key the context does not have returns
\* Err(LoadFailed), on either back end, without aborting and without
\* changing the context.
C7_MissingFontLoadFailed ==
    [][/\ (fontdue_rasterize_glyph(1) /\ ctx_fonts[1][font.font_key] = NoObj)
             => /\ out'.res = LoadFailed
                /\ pc'[1] = "idle"
                /\ ctx_fonts' = ctx_fonts
       /\ (swash_rasterize_glyph /\ fonts[font.font_key] = NoFont)
             => /\ out'.res = LoadFailed
                /\ pc'[1] = "idle"
                /\ fonts' = fonts /\ cache' = cache]_vars

\* C8: no rasterize_glyph or get_glyph_dimensions call panics.
C8_NoRasterizationPanic ==
    out.op \in {"rasterize_glyph", "get_glyph_dimensions"} => out.res # Panic

\* C9: a successful rasterize_glyph result has width > 0, height > 0 and
\* 4 * width * height bytes.
C9_OkResultShape ==
    (out.op = "rasterize_glyph" /\ out.res.tag = "Ok")
        => /\ out.res.width > 0
           /\ out.res.height > 0
           /\ Len(out.res.bytes) = 4 * out.res.width * out.res.height

\* A glyph rasterized from an embedded colour image.
C9_Witness ==
    /\ out.op = "rasterize_glyph"
    /\ out.res.tag = "Ok"
    /\ out.res.format = "ColorBitmap"
    /\ key.index = 3

\* C10: a rasterize_glyph call returns what the previous rasterize_glyph
\* call returned, when no font was added or deleted in between.
C10_RasterizeIdempotent ==
    [][((fontdue_rasterize_glyph(1) \/ swash_rasterize_glyph)
            /\ out.ras.tag # "none")
          => out'.res = out.ras]_vars

\* A second rasterize_glyph has been served from the glyph-image cache.
C10_Witness ==
    /\ backend = "swash"
    /\ out.op = "rasterize_glyph"
    /\ out.again
    /\ out.res.tag = "Ok"
    /\ cache_has(cache, font, key)

\* C11: add_raw_font with bytes that do not parse, for an identity neither
\* the store nor the context knows, aborts the call; the store and the
\* local map still have no entry for the identity and the lock is free.
C11_ParseFailureFatal ==
    [][/\ (/\ with_font(1)
           /\ arg[1].template.kind = "Raw"
           /\ ~from_bytes_ok(arg[1].template.data)
           /\ cache_fonts[arg[1].key] = NoObj
           /\ ctx_fonts[1][arg[1].key] = NoObj)
             => /\ pc'[1] = "panicked"
                /\ lock' = 0
                /\ cache_fonts'[arg[1].key] = NoObj
                /\ ctx_fonts'[1][arg[1].key] = NoObj
       /\ \A k \in Keys, d \in RawTemplates :
            (swash_add_raw_font_of(k, d) /\ ~from_data_ok(d)
                /\ fonts[k] = NoFont)
               => /\ pc'[1] = "panicked"
                  /\ fonts'[k] = NoFont]_vars

\* C12: every step of an add_raw_font call for a key the calling context
\* already holds leaves the context's local map and the store's entry for
\* the key as they are, and the call does not abort.
C12_AddKnownKeyIdempotent ==
    [][\A t \in Threads :
         (/\ pc[t] \in {"with_font", "add_font"}
          /\ pc'[t] # pc[t]
          /\ arg[t].template.kind = "Raw"
          /\ ctx_fonts[t][arg[t].key] # NoObj)
            => /\ ctx_fonts'[t] = ctx_fonts[t]
               /\ cache_fonts'[arg[t].key] = cache_fonts[arg[t].key]
               /\ pc'[t] # "panicked"]_vars

\* C13: add_native_font with a valid handle for a key neither the store nor
\* the context knows completes without aborting and leaves the context
\* holding a font under the key.
C13_NativeFontRegisters ==
    [][/\ (/\ with_font(1)
           /\ arg[1].template.kind = "Native"
           /\ cache_fonts[arg[1].key] = NoObj
           /\ ctx_fonts[1][arg[1].key] = NoObj)
             => pc'[1] = "add_font"
       /\ (add_font(1) /\ arg[1].template.kind = "Native")
             => ctx_fonts'[1][arg[1].key] # NoObj
       /\ \A k \in Keys, h \in NativeHandles :
            (swash_add_native_font_of(k, h) /\ font_cache_get(h) # NoFont
                /\ fonts[k] = NoFont)
               => /\ pc'[1] = "idle"
                  /\ fonts'[k] = font_cache_get(h)]_vars

\* C14: right after delete_font_instance(I) the glyph-image cache has no
\* entry whose instance is I, and a rasterize_glyph or get_glyph_dimensions
\* that finds no entry renders the glyph from the registered font and
\* caches that image.
C14_InstanceDeletionEmptiesCache ==
    [][/\ \A i \in CacheInstances :
            swash_delete_font_instance_of(i)
               => \A e \in cache' : e.instance # i
       /\ \A i \in CacheInstances, g \in CacheKeys :
            (/\ backend = "swash"
             /\ out'.op \in {"rasterize_glyph", "get_glyph_dimensions"}
             /\ ~cache_has(cache, i, g)
             /\ fonts[i.font_key] # NoFont
             /\ render_glyph(fonts[i.font_key], i, g) # None
             /\ swash_rasterize_glyph_of(i, g)
                   \/ swash_get_glyph_dimensions_of(i, g))
               => /\ cache_has(cache', i, g)
                  /\ cache_get(cache', i, g)
                        = render_glyph(fonts[i.font_key], i, g)]_vars

\* delete_font_instance has emptied a cache that held the image of the
\* last rasterize_glyph, the font still being registered.
C14_Witness ==
    /\ backend = "swash"
    /\ out.op = "delete_font_instance"
    /\ out.ras.tag = "Ok"
    /\ cache = {}

\* C15: delete_font(K) leaves no cache entry with font key K; every cached
\* image is the rendering of its glyph from the font now registered under
\* its font key, and so is what rasterize_glyph returns.
C15_FontDeletionInvalidatesCache ==
    /\ [](\A e \in cache :
            /\ fonts[e.instance.font_key] # NoFont
            /\ e.image = render_glyph(fonts[e.instance.font_key],
                                      e.instance, e.glyph_key))
    /\ [][/\ \A k \in Keys :
                swash_delete_font_of(k)
                   => \A e \in cache' : e.instance.font_key # k
           /\ \A i \in CacheInstances, g \in CacheKeys :
                (swash_rasterize_glyph_of(i, g) /\ fonts[i.font_key] # NoFont)
                   => out'.res = swash_rasterize(
                          render_glyph(fonts[i.font_key], i, g), i)]_vars

\* A font is registered, the cache is empty, and the last rasterize_glyph
\* returned a glyph that the font now registered does not render: the font
\* was deleted and registered again with other bytes.
C15_Witness ==
    /\ backend = "swash"
    /\ out.op = "rasterize_glyph"
    /\ out.res.tag = "Ok"
    /\ cache = {}
    /\ \E k \in Keys : fonts[k] # NoFont
    /\ \A i \in CacheInstances, g \in CacheKeys :
         fonts[i.font_key] # NoFont
            => out.res # swash_rasterize(
                   render_glyph(fonts[i.font_key], i, g), i)

\* C16: delete_font_instance leaves the context's fonts alone; on the
\* shared-store back end it also leaves the store's table, the font objects
\* and their reference counts alone.
C16_InstanceDeletionKeepsFont ==
    [][/\ \A i \in CacheInstances :
            swash_delete_font_instance_of(i) => fonts' = fonts
       /\ fontdue_delete_font_instance(1)
            => /\ ctx_fonts' = ctx_fonts
               /\ cache_fonts' = cache_fonts
               /\ heap' = heap
               /\ \A o \in ObjIds :
                    strong_count(o, cache_fonts', ctx_fonts', cached')
                      = strong_count(o, cache_fonts, ctx_fonts, cached)]_vars

\* delete_font_instance has been called on a context whose cache keeps
\* images of another instance of the same font.
C16_Witness ==
    /\ backend = "swash"
    /\ out.op = "delete_font_instance"
    /\ \E e \in cache : fonts[e.instance.font_key] # NoFont

C18_HolderKeepsFont ==
    [][\A a, b \in Threads, k \in Keys :
         (/\ a # b
          /\ delete_font(a) \/ cache_delete_font(a) \/ remove(a) \/ drop(a)
          /\ ctx_fonts[b][k] # NoObj)
            => /\ ctx_fonts'[b][k] = ctx_fonts[b][k]
               /\ heap'[ctx_fonts[b][k]] = heap[ctx_fonts[b][k]]
               /\ heap'[ctx_fonts[b][k]].hash = k
               /\ \A ch \in Chars :
                    get_glyph_index(ctx_fonts'[b], heap', k, ch)
                      = get_glyph_index(ctx_fonts[b], heap, k, ch)
               /\ \A i \in CacheInstances, g \in CacheKeys :
                    i.font_key = k
                      => /\ get_glyph_dimensions(ctx_fonts'[b], heap', i, g)
                            = get_glyph_dimensions(ctx_fonts[b], heap, i, g)
                         /\ rasterize_glyph(ctx_fonts'[b], heap', i, g)
                            = rasterize_glyph(ctx_fonts[b], heap, i, g)
                         /\ rasterize_glyph(ctx_fonts'[b], heap', i, g)
                               .tag = "Ok"
                              \/ g.index # 1]_vars

\* Context A has removed the store's entry in its delete_font and is about
\* to drop its handle to the font that context B still holds.
C18_Witness ==
    \E a, b \in Threads, k \in Keys :
        /\ a # b
        /\ pc[a] = "drop"
        /\ cached[a] = ctx_fonts[b][k]
        /\ ctx_fonts[b][k] # NoObj
        /\ cache_fonts[k] = NoObj

\* C19: get_glyph_index returns None for a font key the context does not
\* have and for a character the font maps to glyph 0, and Some(index) with
\* the non-zero index otherwise, on either back end.
C19_GlyphIndexNoneOnMiss ==
    [][\A k \in Keys, ch \in Chars :
         /\ fontdue_get_glyph_index_of(1, k, ch)
              => out'.res =
                   IF ctx_fonts[1][k] = NoObj
                        \/ lookup_glyph_index(heap[ctx_fonts[1][k]].data, ch) = 0
                     THEN None
                     ELSE [tag |-> "Some",
                           index |-> lookup_glyph_index(
                                         heap[ctx_fonts[1][k]].data, ch)]
         /\ swash_get_glyph_index_of(k, ch)
              => out'.res =
                   IF fonts[k] = NoFont \/ lookup_glyph_index(fonts[k], ch) = 0
                     THEN None
                     ELSE [tag |-> "Some",
                           index |-> lookup_glyph_index(fonts[k], ch)]]_vars

\* C20: get_glyph_dimensions returns None for an instance whose font the
\* context does not have, and never Some with a zero width or height, on
\* either back end.
C20_NoDegenerateDimensions ==
    [][/\ fontdue_get_glyph_dimensions(1)
            => /\ ctx_fonts[1][font.font_key] = NoObj => out'.res = None
               /\ out'.res.tag \in {"None", "Some"}
               /\ out'.res.tag = "Some"
                    => out'.res.width > 0 /\ out'.res.height > 0
       /\ swash_get_glyph_dimensions
            => /\ fonts[font.font_key] = NoFont => out'.res = None
               /\ out'.res.tag \in {"None", "Some"}
               /\ out'.res.tag = "Some"
                    => out'.res.width > 0 /\ out'.res.height > 0]_vars

\* C21: get_glyph_dimensions for glyph index 0 of a font the context has
\* returns None on either back end, whether or not glyph 0 of the font has
\* an outline at the size asked for.
C21_NotdefDimensionsNone ==
    [][/\ (/\ fontdue_get_glyph_dimensions(1)
           /\ key.index = 0
           /\ ctx_fonts[1][font.font_key] # NoObj)
            => out'.res = None
       /\ (/\ swash_get_glyph_dimensions
           /\ key.index = 0
           /\ fonts[font.font_key] # NoFont)
            => out'.res = None]_vars

\* C22: prepare_font leaves the instance opaque white; for a Mono instance
\* fractional sub-pixel positioning is off afterwards, for an Alpha or
\* Subpixel instance it is as it was; font_key, size, transform, render_mode
\* and the other flags are unchanged, on either back end.
C22_PrepareFontPostState ==
    [][(fontdue_prepare_font(1) \/ swash_prepare_font)
         => /\ font'.color = ColorU(255, 255, 255, 255)
            /\ font.render_mode = "Mono"
                 => "SUBPIXEL_POSITION" \notin font'.flags
            /\ font.render_mode \in {"Alpha", "Subpixel"}
                 => ("SUBPIXEL_POSITION" \in font'.flags
                        <=> "SUBPIXEL_POSITION" \in font.flags)
            /\ font'.flags \ {"SUBPIXEL_POSITION"}
                 = font.flags \ {"SUBPIXEL_POSITION"}
            /\ font'.font_key = font.font_key
            /\ font'.size = font.size
            /\ font'.transform = font.transform
            /\ font'.render_mode = font.render_mode]_vars

\* A coloured Mono instance asking for sub-pixel positions has been prepared.
C22_Witness ==
    /\ out.op = "prepare_font"
    /\ out.res.instance.render_mode = "Mono"
    /\ "SUBPIXEL_POSITION" \in out.res.instance.flags
    /\ out.res.instance.color # ColorU(255, 255, 255, 255)
    /\ font.color = ColorU(255, 255, 255, 255)
    /\ "SUBPIXEL_POSITION" \notin font.flags

\* The instance f with the SUBPIXEL_BGR flag the other way round.
toggle_subpixel_bgr(f) ==
    [f EXCEPT !.flags = IF "SUBPIXEL_BGR" \in @
                          THEN @ \ {"SUBPIXEL_BGR"}
                          ELSE @ \cup {"SUBPIXEL_BGR"}]

\* Two results of the same size whose pixels have byte 0 and byte 2
\* exchanged and byte 1 and byte 3 equal.
ExchangedRB(a, b) ==
    /\ b.tag = "Ok"
    /\ a.width = b.width
    /\ a.height = b.height
    /\ Len(a.bytes) = Len(b.bytes)
    /\ \A p \in 0..((Len(a.bytes) \div 4) - 1) :
         /\ a.bytes[4 * p + 1] = b.bytes[4 * p + 3]
         /\ a.bytes[4 * p + 3] = b.bytes[4 * p + 1]
         /\ a.bytes[4 * p + 2] = b.bytes[4 * p + 2]
         /\ a.bytes[4 * p + 4] = b.bytes[4 * p + 4]

\* C23: a successful rasterize_glyph of a Subpixel-mode instance and the
\* rasterize_glyph of the same context for the instance that differs in the
\* SUBPIXEL_BGR flag only give results of the same size in which every pixel
\* has byte 0 and byte 2 exchanged and byte 1 and byte 3 equal.
C23_SubpixelBgrExchanges ==
    [][/\ (/\ fontdue_rasterize_glyph(1)
           /\ font.render_mode = "Subpixel"
           /\ out'.res.tag = "Ok")
            => ExchangedRB(out'.res,
                   rasterize_glyph(ctx_fonts[1], heap,
                                   toggle_subpixel_bgr(font), key))
       /\ (/\ swash_rasterize_glyph
           /\ font.render_mode = "Subpixel"
           /\ out'.res.tag = "Ok")
            => ExchangedRB(out'.res,
                   swash_rasterize(
                       get_or_create_cache(fonts', cache',
                           toggle_subpixel_bgr(font), key).res,
                       toggle_subpixel_bgr(font)))]_vars

\* A Subpixel-mode glyph has been rasterized with SUBPIXEL_BGR set, and the
\* first and third byte of its first pixel differ.
C23_Witness ==
    /\ out.op = "rasterize_glyph"
    /\ out.res.tag = "Ok"
    /\ font.render_mode = "Subpixel"
    /\ "SUBPIXEL_BGR" \in font.flags
    /\ out.res.format = "Subpixel"
    /\ out.res.bytes[1] # out.res.bytes[3]

\* C24: in every pixel of a successful result of format Subpixel the fourth
\* byte is the maximum of the first three, on either back end and for either
\* setting of SUBPIXEL_BGR.
C24_SubpixelAlphaIsMax ==
    (out.op = "rasterize_glyph" /\ out.res.tag = "Ok"
        /\ out.res.format = "Subpixel")
      => \A p \in 0..((Len(out.res.bytes) \div 4) - 1) :
           out.res.bytes[4 * p + 4]
             = Max(Max(out.res.bytes[4 * p + 1], out.res.bytes[4 * p + 2]),
                   out.res.bytes[4 * p + 3])

\* The bytes are the coverage mask with every value written four times, in
\* the order of the mask.
Replicated(bytes, mask) ==
    /\ Len(bytes) = 4 * Len(mask)
    /\ \A i \in 1..Len(mask), c \in 1..4 : bytes[4 * (i - 1) + c] = mask[i]

\* C25: a successful rasterize_glyph of a Mono or Alpha coverage mask of n
\* pixels returns 4n bytes, the four bytes of pixel i all being the coverage
\* of pixel i of the mask (fontdue: the bitmap the library rasterized;
\* swash: the mask image the context holds for the glyph).
C25_MaskReplicated ==
    [][/\ (/\ fontdue_rasterize_glyph(1)
           /\ font.render_mode \in {"Mono", "Alpha"}
           /\ out'.res.tag = "Ok")
            => Replicated(out'.res.bytes,
                   rasterize_indexed(heap[ctx_fonts[1][font.font_key]].data,
                                     as_u16(key.index), font.size))
       /\ (/\ swash_rasterize_glyph
           /\ out'.res.tag = "Ok"
           /\ cache_get(cache', font, key).content = "Mask")
            => Replicated(out'.res.bytes,
                          cache_get(cache', font, key).data)]_vars

\* A mask of two pixels of different coverage has been rasterized.
C25_Witness ==
    /\ out.op = "rasterize_glyph"
    /\ out.res.tag = "Ok"
    /\ font.render_mode \in {"Mono", "Alpha"}
    /\ out.res.format \in {"Bitmap", "Alpha"}
    /\ Len(out.res.bytes) = 8
    /\ out.res.bytes[1] # out.res.bytes[5]

\* The bytes are the pixels of the image, each (r, g, b, a) written as
\* (b, g, r, a).
ReorderedBGRA(bytes, pixels) ==
    /\ Len(bytes) = Len(pixels)
    /\ \A p \in 0..((Len(pixels) \div 4) - 1) :
         /\ bytes[4 * p + 1] = pixels[4 * p + 3]
         /\ bytes[4 * p + 2] = pixels[4 * p + 2]
         /\ bytes[4 * p + 3] = pixels[4 * p + 1]
         /\ bytes[4 * p + 4] = pixels[4 * p + 4]

\* C26: a successful rasterize_glyph of an embedded colour image returns
\* each pixel (r, g, b, a) of the image as (b, g, r, a), whatever the flags
\* of the instance are, SUBPIXEL_BGR included.
C26_ColorImageReordered ==
    [][(/\ swash_rasterize_glyph
        /\ out'.res.tag = "Ok"
        /\ cache_get(cache', font, key).content = "Color")
         => /\ out'.res.format = "ColorBitmap"
            /\ ReorderedBGRA(out'.res.bytes,
                             cache_get(cache', font, key).data)]_vars

\* The glyph of the instance's font that the glyph key names (fontdue).
fontdue_glyph(t, instance, glyph_key) ==
    Face(heap[ctx_fonts[t][instance.font_key]].data)[as_u16(glyph_key.index) + 1]

\* rasterize_glyph is in the zero-extent fallback: the context has the font,
\* its bytes parse and the outline of the glyph has no extent at the size.
ZeroExtentFallback(t, instance, glyph_key) ==
    /\ ctx_fonts[t][instance.font_key] # NoObj
    /\ face_parse_ok(heap[ctx_fonts[t][instance.font_key]].data)
    /\ LET m == metrics_indexed(heap[ctx_fonts[t][instance.font_key]].data,
                                as_u16(glyph_key.index), instance.size)
       IN m.width = 0 \/ m.height = 0

\* C27: in the zero-extent fallback rasterize_glyph returns Ok with format
\* ColorBitmap and the width and height of the image when the glyph has an
\* embedded SVG or raster image that decodes, and Err(LoadFailed) only when
\* it has none that decodes.
C27_FallbackUsesEmbeddedImage ==
    [][(fontdue_rasterize_glyph(1) /\ ZeroExtentFallback(1, font, key))
         => LET g == fontdue_glyph(1, font, key)
                d == heap[ctx_fonts[1][font.font_key]].data
                i == as_u16(key.index)
                img == IF g.svg = "ok" THEN resvg_render(d, i)
                                       ELSE decode_png(d, i)
            IN IF g.svg = "ok" \/ g.png = "ok"
                 THEN /\ out'.res.tag = "Ok"
                      /\ out'.res.format = "ColorBitmap"
                      /\ out'.res.width = img.width
                      /\ out'.res.height = img.height
                 ELSE out'.res = LoadFailed]_vars

\* C28: the zero-extent fallback tries the embedded SVG image first and the
\* embedded raster image when the SVG image is absent or fails: a glyph with
\* an SVG image that renders gives that image, a glyph whose SVG image
\* fails and whose raster image decodes gives the raster image, and the
\* fallback fails only when neither gives an image.
C28_FallbackFallsThrough ==
    [][(fontdue_rasterize_glyph(1) /\ ZeroExtentFallback(1, font, key))
         => LET g == fontdue_glyph(1, font, key)
                d == heap[ctx_fonts[1][font.font_key]].data
                i == as_u16(key.index)
            IN /\ g.svg = "ok"
                    => /\ out'.res.tag = "Ok"
                       /\ out'.res.bytes = pixmap_to_bgra(resvg_render(d, i).data)
               /\ (g.svg # "ok" /\ g.png = "ok")
                    => /\ out'.res.tag = "Ok"
                       /\ out'.res.bytes = pixmap_to_bgra(decode_png(d, i).data)
               /\ (g.svg # "ok" /\ g.png # "ok")
                    => out'.res = LoadFailed]_vars

\* C29: the format of a successful result names the path the pixels came
\* from: an outline rendered in Subpixel mode is tagged Subpixel, an outline
\* rendered in Mono or Alpha mode is tagged as a coverage mask (Bitmap on
\* fontdue, Alpha on swash), and ColorBitmap is the tag of the glyphs drawn
\* from a colour image of the font and of no other.
C29_FormatMatchesPath ==
    [][/\ (fontdue_rasterize_glyph(1) /\ out'.res.tag = "Ok")
            => out'.res.format
                 = IF ZeroExtentFallback(1, font, key) THEN "ColorBitmap"
                   ELSE IF font.render_mode = "Subpixel" THEN "Subpixel"
                   ELSE "Bitmap"
       /\ (swash_rasterize_glyph /\ out'.res.tag = "Ok")
            => out'.res.format
                 = IF is_colr(fonts[font.font_key], as_u16(key.index))
                        \/ Face(fonts[font.font_key])[as_u16(key.index) + 1]
                              .png = "ok"
                     THEN "ColorBitmap"
                   ELSE IF font.render_mode = "Subpixel" THEN "Subpixel"
                   ELSE "Alpha"]_vars

\* An outline has been rendered in Subpixel mode on the swash back end.
C29_Witness ==
    /\ backend = "swash"
    /\ out.op = "rasterize_glyph"
    /\ out.res.tag = "Ok"
    /\ font.render_mode = "Subpixel"
    /\ out.res.format = "Subpixel"
    /\ key.index = 1

\* C30: whenever the store has an entry for K, every context that holds a
\* local reference for K holds the object of that entry: no two parsed font
\* objects are live for K at the same time.
C30_OneFontObjectPerKey ==
    \A t \in Threads, k \in Keys :
        (cache_fonts[k] # NoObj /\ ctx_fonts[t][k] # NoObj)
            => ctx_fonts[t][k] = cache_fonts[k]

\* The font objects the context of thread t points to; every other object
\* of the heap is blanked.
LocalHeap(t) ==
    [o \in ObjIds |->
        IF \E k \in Keys : ctx_fonts[t][k] = o THEN heap[o] ELSE Dead]

\* A query step of thread t leaves the lock, the store's table, the local
\* maps and the font objects as they were.
QueryFrame ==
    /\ lock' = lock
    /\ cache_fonts' = cache_fonts
    /\ ctx_fonts' = ctx_fonts
    /\ heap' = heap
    /\ cached' = cached

\* C31: get_glyph_index, get_glyph_dimensions and rasterize_glyph of a
\* thread that is not inside a call can run whoever holds the store lock,
\* leave the lock and the store's table alone, and return what the calling
\* context's own font map and the fonts it points to determine.
C31_QueriesBypassStore ==
    /\ [](\A t \in Threads, i \in QueryInstances, g \in QueryKeys :
            (pc[t] = "idle" /\ calls < MaxCalls)
               => /\ ENABLED fontdue_get_glyph_index_of(t, i.font_key, "a")
                  /\ ENABLED fontdue_get_glyph_dimensions_of(t, i, g)
                  /\ ENABLED fontdue_rasterize_glyph_of(t, i, g))
    /\ [][\A t \in Threads :
            /\ \A i \in QueryInstances, ch \in QueryChars :
                 fontdue_get_glyph_index_of(t, i.font_key, ch)
                   => /\ QueryFrame
                      /\ out'.res = get_glyph_index(ctx_fonts[t], LocalHeap(t),
                                                    i.font_key, ch)
            /\ \A i \in QueryInstances, g \in QueryKeys :
                 /\ fontdue_get_glyph_dimensions_of(t, i, g)
                      => /\ QueryFrame
                         /\ out'.res = get_glyph_dimensions(ctx_fonts[t],
                                           LocalHeap(t), i, g)
                 /\ fontdue_rasterize_glyph_of(t, i, g)
                      => /\ QueryFrame
                         /\ out'.res = rasterize_glyph(ctx_fonts[t],
                                           LocalHeap(t), i, g)]_vars

\* A thread whose context has a font got a glyph rasterized while another
\* thread holds the store lock inside with_font.
C31_Witness ==
    \E t, u \in Threads :
        /\ t # u
        /\ lock = u
        /\ pc[u] = "with_font"
        /\ pc[t] = "idle"
        /\ ctx_fonts[t][1] # NoObj
        /\ out.op = "rasterize_glyph"
        /\ out.res.tag = "Ok"

\* C32: on the swash back end every entry of the glyph-image cache belongs
\* to a font the context's font map has.
C32_CacheFontsRegistered ==
    backend = "swash"
        => \A e \in cache : fonts[e.instance.font_key] # NoFont

\* The cache holds images of two instances after the last call of the run.
C32_Witness ==
    /\ backend = "swash"
    /\ calls = MaxCalls
    /\ \E e1, e2 \in cache : e1.instance # e2.instance

\* The dimensions d and the rasterization result r agree: Some exactly when
\* Ok, and then with the same width and height.
DimensionsAgree(d, r) ==
    /\ d.tag = "Some" <=> r.tag = "Ok"
    /\ d.tag = "Some" => (d.width = r.width /\ d.height = r.height)

\* C33: what get_glyph_dimensions returns agrees with what rasterize_glyph
\* returns in the same context state for the same instance and glyph key,
\* on either back end.
C33_DimensionsAgreeWithRaster ==
    [][/\ fontdue_get_glyph_dimensions(1)
            => DimensionsAgree(out'.res,
                   rasterize_glyph(ctx_fonts'[1], heap', font, key))
       /\ swash_get_glyph_dimensions
            => DimensionsAgree(out'.res,
                   swash_rasterize(
                       get_or_create_cache(fonts', cache', font, key).res,
                       font))]_vars

C35_FullGlyphIndexUsed ==
    [][/\ (fontdue_rasterize_glyph(1) /\ out'.res.tag = "Ok")
            => \A k2 \in GlyphKeys :
                 k2.index # key.index
                   => rasterize_glyph(ctx_fonts'[1], heap', font, k2)
                        # out'.res
       /\ (swash_rasterize_glyph /\ out'.res.tag = "Ok")
            => \A k2 \in GlyphKeys :
                 k2.index # key.index
                   => swash_rasterize(
                          get_or_create_cache(fonts', cache', font, k2).res,
                          font) # out'.res]_vars

====
